---- MODULE Spec2Model ----
(***************************************************************************)
(* WireWave (src/lib.rs): a blocking client for the Wave API.              *)
(*                                                                         *)
(*   WaveMusic::new(q)        search: one GET, status check, JSON decode   *)
(*   WaveMusic::thumbnail()   id check, one GET, status check              *)
(*   Display for WaveMusic    "<title> from <uploader_name>"               *)
(*   derive(Serialize, Deserialize) on WaveMusic and ApiResponse           *)
(*                                                                         *)
(* The transport (reqwest) is the environment: each call of send()/get()   *)
(* is answered by a transport failure or by a response with a status and a *)
(* body.  A JSON text is modelled by its value tree, or by NotJson when    *)
(* the text is not JSON at all.                                            *)
(***************************************************************************)
EXTENDS Integers, Sequences, FiniteSets, TLC

VARIABLES
    op,        \* the operation last called: "none", "new", "thumbnail", "fmt"
    arg,       \* its argument: the query of new, the item of thumbnail / fmt
    requests,  \* the URLs of the GET requests that call issued, in order
    reply,     \* what the transport answered to that call
    bodyRead,  \* whether that call read the response body (Response::text)
    result,    \* the value that call returned: Ok(..) or Err(..)
    json,      \* serde_json::to_value of the items new returned, once taken
    lastErr    \* <<cause, type>> of the latest error an earlier call returned

vars == <<op, arg, requests, reply, bodyRead, result, json, lastErr>>

----------------------------------------------------------------------------
(* Bounds of the model.                                                    *)

\* longest `items` array built from OrderPool
MaxItems == 2

----------------------------------------------------------------------------
(* Result, Option and error values.                                        *)

Ok(v) == <<"Ok", v>>
Err(e) == <<"Err", e>>
IsOk(r) == r[1] = "Ok"
IsErr(r) == r[1] = "Err"

None == <<"None">>
Some(v) == <<"Some", v>>

\* Option<String>::unwrap_or_default
unwrap_or_default(o) == IF o = None THEN "" ELSE o[2]

\* Box<dyn Error> holds a value of one concrete error type.
ReqwestError(what) == [ty |-> "reqwest::Error", msg |-> <<what>>]
SerdeError(what) == [ty |-> "serde_json::Error", msg |-> <<what>>]
\* From<&str> / From<String> for Box<dyn Error>: a bare message.
StringError(msg) == [ty |-> "StringError", msg |-> msg]

----------------------------------------------------------------------------
(* JSON values.  An integer is two 16-bit limbs, value = hi * Limb + lo,   *)
(* so that numbers beyond u32 can be written (hi >= Limb, or hi < 0).      *)

Limb == 65536

JNull == <<"null">>
JStr(s) == <<"str", s>>
JNum(hi, lo) == <<"num", hi, lo>>
JArr(elems) == <<"arr", elems>>
\* members: the sequence of <<key, value>> pairs in text order
JObj(members) == <<"obj", members>>
\* a text that is not JSON
NotJson == <<"garbage">>
\* no serialization taken yet
NoJson == <<"unset">>

\* The JSON keys of WaveMusic's fields, in declaration order (serde rename).
Fields == <<"title", "uploaderName", "uploaderUrl", "duration", "id">>
FieldSet == {Fields[i] : i \in 1..Len(Fields)}

WaveMusic(t, un, uu, d, i) ==
    [title |-> t, uploader_name |-> un, uploader_url |-> uu, duration |-> d, id |-> i]

----------------------------------------------------------------------------
(* derive(Deserialize) as serde_json runs it.                              *)

\* mutant: null read as the default string, as unwrap_or_default would
de_option_string_or_default(v) ==
    IF v = JNull THEN Ok(Some(""))
    ELSE IF v[1] = "str" THEN Ok(Some(v[2]))
    ELSE Err("invalid type")

\* Option<String>: null is None, a string is Some, anything else an error.
de_option_string(v) ==
    IF v = JNull THEN Ok(None)
    ELSE IF v[1] = "str" THEN Ok(Some(v[2]))
    ELSE Err("invalid type")

\* Option<u32>: null is None, an integer in 0 .. 2^32-1 is Some.
de_option_u32(v) ==
    IF v = JNull THEN Ok(None)
    ELSE IF v[1] = "num"
         THEN IF 0 <= v[2] /\ v[2] < Limb THEN Ok(Some(<<v[2], v[3]>>))
              ELSE Err("invalid value")
    ELSE Err("invalid type")

de_field(key, v) ==
    IF key = "duration" THEN de_option_u32(v) ELSE de_option_string(v)

Unset == <<"Unset">>

\* a field never seen in the map is None (Option's missing-field rule)
finish(acc) ==
    LET f(k) == IF acc[k] = Unset THEN None ELSE acc[k]
    IN WaveMusic(f("title"), f("uploaderName"), f("uploaderUrl"), f("duration"), f("id"))

\* visit_map of WaveMusic: members in text order; unknown keys are skipped,
\* a key seen twice is an error, a bad value is an error.
RECURSIVE WaveMusic_visit_map(_, _)
WaveMusic_visit_map(members, acc) ==
    IF members = <<>> THEN Ok(finish(acc))
    ELSE LET k == Head(members)[1]
             v == Head(members)[2]
         IN IF k \notin FieldSet THEN WaveMusic_visit_map(Tail(members), acc)
            ELSE IF acc[k] # Unset THEN Err("duplicate field")
            ELSE LET r == de_field(k, v)
                 IN IF IsErr(r) THEN r
                    ELSE WaveMusic_visit_map(Tail(members), [acc EXCEPT ![k] = r[2]])

\* visit_seq of WaveMusic: the fields positionally; too few elements is
\* invalid length, elements left over are trailing characters.
RECURSIVE WaveMusic_visit_seq(_, _, _)
WaveMusic_visit_seq(elems, i, acc) ==
    IF i > Len(Fields)
    THEN IF Len(elems) > Len(Fields) THEN Err("trailing characters")
         ELSE Ok(finish(acc))
    ELSE IF i > Len(elems) THEN Err("invalid length")
    ELSE LET r == de_field(Fields[i], elems[i])
         IN IF IsErr(r) THEN r
            ELSE WaveMusic_visit_seq(elems, i + 1, [acc EXCEPT ![Fields[i]] = r[2]])

\* deserialize_struct: serde_json hands an object to visit_map and an
\* array to visit_seq; any other value is an invalid type.
de_WaveMusic(v) ==
    LET blank == [k \in FieldSet |-> Unset]
    IN IF v[1] = "obj" THEN WaveMusic_visit_map(v[2], blank)
       ELSE IF v[1] = "arr" THEN WaveMusic_visit_seq(v[2], 1, blank)
       ELSE Err("invalid type")

\* mutant: each decoded element is put in front of the earlier ones
RECURSIVE de_elements_prepend(_, _)
de_elements_prepend(elems, done) ==
    IF elems = <<>> THEN Ok(done)
    ELSE LET r == de_WaveMusic(Head(elems))
         IN IF IsErr(r) THEN r
            ELSE de_elements_prepend(Tail(elems), <<r[2]>> \o done)

\* Vec<WaveMusic>: an array, its elements decoded in order; the first
\* failure fails the whole vector.
RECURSIVE de_elements(_, _)
de_elements(elems, done) ==
    IF elems = <<>> THEN Ok(done)
    ELSE LET r == de_WaveMusic(Head(elems))
         IN IF IsErr(r) THEN r
            ELSE de_elements(Tail(elems), Append(done, r[2]))

de_vec(v) ==
    IF v[1] = "arr" THEN de_elements(v[2], <<>>) ELSE Err("invalid type")

\* mutant: `items` defaults to the empty vector, as #[serde(default)] would
RECURSIVE ApiResponse_visit_map_default(_, _)
ApiResponse_visit_map_default(members, items) ==
    IF members = <<>>
    THEN IF items = None THEN Ok([items |-> <<>>]) ELSE Ok([items |-> items[2]])
    ELSE LET k == Head(members)[1]
             v == Head(members)[2]
         IN IF k # "items" THEN ApiResponse_visit_map_default(Tail(members), items)
            ELSE IF items # None THEN Err("duplicate field")
            ELSE LET r == de_vec(v)
                 IN IF IsErr(r) THEN r
                    ELSE ApiResponse_visit_map_default(Tail(members), Some(r[2]))

\* visit_map of ApiResponse: `items` is required (Vec has no default);
\* items is None until the key is seen, then Some(vector).
RECURSIVE ApiResponse_visit_map(_, _)
ApiResponse_visit_map(members, items) ==
    IF members = <<>>
    THEN IF items = None THEN Err("missing field") ELSE Ok([items |-> items[2]])
    ELSE LET k == Head(members)[1]
             v == Head(members)[2]
         IN IF k # "items" THEN ApiResponse_visit_map(Tail(members), items)
            ELSE IF items # None THEN Err("duplicate field")
            ELSE LET r == de_vec(v)
                 IN IF IsErr(r) THEN r
                    ELSE ApiResponse_visit_map(Tail(members), Some(r[2]))

\* visit_seq of ApiResponse: exactly one element, the items.
ApiResponse_visit_seq(elems) ==
    IF elems = <<>> THEN Err("invalid length")
    ELSE LET r == de_vec(elems[1])
         IN IF IsErr(r) THEN r
            ELSE IF Len(elems) > 1 THEN Err("trailing characters")
            ELSE Ok([items |-> r[2]])

de_ApiResponse(v) ==
    IF v[1] = "obj" THEN ApiResponse_visit_map(v[2], None)
    ELSE IF v[1] = "arr" THEN ApiResponse_visit_seq(v[2])
    ELSE Err("invalid type")

\* serde_json::from_str::<ApiResponse>
from_str(text) ==
    IF text = NotJson THEN Err("expected value") ELSE de_ApiResponse(text)

----------------------------------------------------------------------------
(* derive(Serialize): every field is written, None as null.                *)

\* mutant: None written as the default string
ser_option_string_or_default(o) == JStr(unwrap_or_default(o))

ser_option_string(o) == IF o = None THEN JNull ELSE JStr(o[2])

ser_option_u32(o) == IF o = None THEN JNull ELSE JNum(o[2][1], o[2][2])

ser_WaveMusic(m) ==
    JObj(<< <<"title", ser_option_string(m.title)>>,
            <<"uploaderName", ser_option_string(m.uploader_name)>>,
            <<"uploaderUrl", ser_option_string(m.uploader_url)>>,
            <<"duration", ser_option_u32(m.duration)>>,
            <<"id", ser_option_string(m.id)>> >>)

\* serde_json::to_value(&Vec<WaveMusic>)
to_value(items) == JArr([i \in 1..Len(items) |-> ser_WaveMusic(items[i])])

----------------------------------------------------------------------------
(* The transport's answers.                                                *)

NoReply == <<"none">>
\* send() / get() returned Err
TransportFailure == <<"failed">>
\* send() / get() returned a response; readable: the body can be read to its end
Response(status, body, readable) == <<"response", status, body, readable>>
Status(r) == r[2]
Body(r) == r[3]
Readable(r) == r[4]

\* mutant: redirections counted as success
is_success_below_400(status) == 200 <= status /\ status < 400

\* StatusCode::is_success
is_success(status) == 200 <= status /\ status < 300

----------------------------------------------------------------------------
(* The operations of impl WaveMusic.  Each returns the value the function  *)
(* returns (ret) together with its effects on the transport.               *)

SearchUrl(q) == "https://api.wireway.ch/wave/ytmusicsearch?q=" \o q

\* mutant: the search endpoint where the thumbnail endpoint belongs
ThumbnailUrl_search_endpoint(id) == "https://api.wireway.ch/wave/ytmusicsearch?q=" \o id

ThumbnailUrl(id) == "https://api.wireway.ch/wave/thumbnail/" \o id

\* mutant: a failed attempt is sent once more
fetch_data_retry(url, r) ==
    [sent |-> IF r = TransportFailure \/ ~(200 <= Status(r) /\ Status(r) < 300)
              THEN <<url, url>> ELSE <<url>>,
     ret  |-> IF r = TransportFailure THEN Err(ReqwestError("error sending request"))
              ELSE IF 200 <= Status(r) /\ Status(r) < 300 THEN Ok(r)
              ELSE Err(StringError(<<"Failed to fetch data: HTTP ", Status(r)>>))]

\* mutant: the status turned into reqwest's own error, as error_for_status does
fetch_data_error_for_status(url, r) ==
    [sent |-> <<url>>,
     ret  |-> IF r = TransportFailure THEN Err(ReqwestError("error sending request"))
              ELSE IF 200 <= Status(r) /\ Status(r) < 300 THEN Ok(r)
              ELSE Err(ReqwestError("HTTP status error"))]

\* fetch_data: one send(); Ok(response) on a 2xx status, else a message.
fetch_data(url, r) ==
    [sent |-> <<url>>,
     ret  |-> IF r = TransportFailure THEN Err(ReqwestError("error sending request"))
              ELSE IF is_success(Status(r)) THEN Ok(r)
              ELSE Err(StringError(<<"Failed to fetch data: HTTP ", Status(r)>>))]

\* parse_response: text() reads the body, from_str decodes it.
parse_response(response) ==
    [read |-> TRUE,
     ret  |-> IF ~Readable(response) THEN Err(ReqwestError("error decoding response body"))
              ELSE LET response_json == from_str(Body(response))
                   IN IF IsErr(response_json) THEN Err(SerdeError(response_json[2]))
                      ELSE response_json]

\* WaveMusic::new: fetch_data(..)?, parse_response(..)?, Ok(items)
new_call(q, r) ==
    LET fetched == fetch_data(SearchUrl(q), r)
    IN IF IsErr(fetched.ret)
       THEN [sent |-> fetched.sent, read |-> FALSE, ret |-> fetched.ret]
       ELSE LET parsed == parse_response(fetched.ret[2])
            IN [sent |-> fetched.sent, read |-> parsed.read,
                ret  |-> IF IsErr(parsed.ret) THEN parsed.ret
                         ELSE Ok(parsed.ret[2].items)]

\* mutant: the request goes out before the id is looked at
thumbnail_call_get_first(item, r) ==
    [sent |-> <<"https://api.wireway.ch/wave/thumbnail/" \o unwrap_or_default(item.id)>>,
     read |-> FALSE,
     ret  |-> IF item.id = None
              THEN Err(StringError(<<"Music item does not have an ID">>))
              ELSE IF r = TransportFailure THEN Err(ReqwestError("error sending request"))
              ELSE IF 200 <= Status(r) /\ Status(r) < 300 THEN Ok(r)
              ELSE Err(StringError(<<"Failed to fetch thumbnail: HTTP ", Status(r)>>))]

\* WaveMusic::thumbnail: the id check, then one get(); the response itself
\* is returned on a 2xx status, its body unread.
thumbnail_call(item, r) ==
    IF item.id = None
    THEN [sent |-> <<>>, read |-> FALSE,
          ret  |-> Err(StringError(<<"Music item does not have an ID">>))]
    ELSE [sent |-> <<ThumbnailUrl(item.id[2])>>, read |-> FALSE,
          ret  |-> IF r = TransportFailure THEN Err(ReqwestError("error sending request"))
                   ELSE IF is_success(Status(r)) THEN Ok(r)
                   ELSE Err(StringError(<<"Failed to fetch thumbnail: HTTP ", Status(r)>>))]

\* mutant: another separator
fmt_by(item) ==
    unwrap_or_default(item.title) \o " by " \o unwrap_or_default(item.uploader_name)

\* Display::fmt
fmt(item) ==
    unwrap_or_default(item.title) \o " from " \o unwrap_or_default(item.uploader_name)

----------------------------------------------------------------------------
(* Inputs: queries, items, and the answers the transport may give.         *)

Queries == {"lofi", "a b&c"}

Statuses == {199, 200, 299, 300, 404, 500}

BaseMembers ==
    << <<"title", JStr("Song")>>,
       <<"uploaderName", JStr("Artist")>>,
       <<"uploaderUrl", JStr("/channel/UC1")>>,
       <<"duration", JNum(0, 180)>>,
       <<"id", JStr("xyz")>> >>

OtherMembers ==
    << <<"id", JStr("abc")>>, <<"title", JStr("Other")>>, <<"uploaderName", JNull>> >>

Drop(members, i) == SubSeq(members, 1, i - 1) \o SubSeq(members, i + 1, Len(members))
WithValue(members, i, v) == [members EXCEPT ![i] = <<members[i][1], v>>]
WrongType(i) == IF Fields[i] = "duration" THEN JStr("180") ELSE JNum(0, 7)
Values(members) == [i \in 1..Len(members) |-> members[i][2]]

\* item objects: every field absent, null, present, or of the wrong type
ItemObjects ==
    {JObj(BaseMembers), JObj(OtherMembers), JObj(<<>>),
     JObj([i \in 1..Len(Fields) |-> <<Fields[i], JNull>>]),
     JObj(Append(BaseMembers, <<"views", JNum(0, 5)>>)),
     JObj(Append(BaseMembers, <<"id", JStr("abc")>>))}
    \cup {JObj(Drop(BaseMembers, i)) : i \in 1..Len(Fields)}
    \cup {JObj(WithValue(BaseMembers, i, JNull)) : i \in 1..Len(Fields)}
    \cup {JObj(WithValue(BaseMembers, i, WrongType(i))) : i \in 1..Len(Fields)}
    \cup {JObj(WithValue(BaseMembers, 4, n)) :
            n \in {JNum(0, 0), JNum(Limb - 1, Limb - 1), JNum(Limb, 0), JNum(-1, Limb - 1)}}

\* items written positionally, and values that are no item at all
ItemOthers ==
    {JArr(Values(BaseMembers)),
     JArr(Values(WithValue(BaseMembers, 1, JNull))),
     JArr(Values(Drop(BaseMembers, 5))),
     JArr(Append(Values(BaseMembers), JNull)),
     JStr("Song"), JNull, JNum(0, 1)}

ItemJsons == ItemObjects \cup ItemOthers

OrderPool == {JObj(BaseMembers), JObj(OtherMembers), JObj(<<>>)}

ItemsBody(elems) == JObj(<< <<"items", JArr(elems)>> >>)

Bodies ==
    {ItemsBody(s) : s \in UNION {[1..n -> OrderPool] : n \in 0..MaxItems}}
    \cup {ItemsBody(<<e>>) : e \in ItemJsons}
    \cup {NotJson, JNull, JStr("items"), JObj(<<>>),
          JObj(<< <<"results", JArr(<<JObj(BaseMembers)>>)>> >>),
          JObj(<< <<"items", JNull>> >>),
          JObj(<< <<"items", JObj(BaseMembers)>> >>),
          JObj(<< <<"items", JArr(<<>>)>>, <<"items", JArr(<<>>)>> >>),
          JObj(<< <<"total", JNum(0, 1)>>, <<"items", JArr(<<JObj(BaseMembers)>>)>> >>),
          JArr(<<>>),
          JArr(<<JArr(<<>>)>>),
          JArr(<<JArr(<<JObj(BaseMembers)>>)>>),
          JArr(<<JArr(<<>>), JNull>>)}

FewBodies == {ItemsBody(<<JObj(BaseMembers)>>), NotJson, JObj(<<>>)}

Image(bytes) == <<"bytes", bytes>>

SearchReplies ==
    {TransportFailure}
    \cup {Response(s, b, TRUE) : s \in Statuses, b \in FewBodies}
    \cup {Response(200, b, TRUE) : b \in Bodies}
    \cup {Response(200, b, FALSE) : b \in FewBodies}

ThumbnailReplies ==
    {TransportFailure, Response(200, Image("png-2"), TRUE)}
    \cup {Response(s, Image("png-1"), TRUE) : s \in Statuses}

\* WaveMusic has public fields: a caller may build any item
Items ==
    {WaveMusic(t, un, None, d, i) :
        t \in {None, Some("Song")}, un \in {None, Some("Artist")},
        d \in {Some(<<0, 180>>)},
        i \in {None, Some("xyz"), Some("abc"), Some("")}}

\* the items the last call of new returned
Found == IF op = "new" /\ IsOk(result)
         THEN {result[2][i] : i \in 1..Len(result[2])} ELSE {}

----------------------------------------------------------------------------
(* The state machine: one action per operation.                            *)

NoResult == <<"none">>

\* why the last call failed, from what it was given and what it was answered
Cause ==
    IF op = "thumbnail" /\ arg.id = None THEN "absent id"
    ELSE IF reply = TransportFailure THEN "transport"
    ELSE IF ~is_success(Status(reply)) THEN "status"
    ELSE IF ~Readable(reply) THEN "transport"
    ELSE "body"

\* the caller keeps the latest error it was handed
Remember ==
    IF IsErr(result) THEN <<Cause, result[2].ty>> ELSE lastErr

Init ==
    /\ op = "none"
    /\ arg = ""
    /\ requests = <<>>
    /\ reply = NoReply
    /\ bodyRead = FALSE
    /\ result = NoResult
    /\ json = NoJson
    /\ lastErr = <<"none", "none">>

new(q, r) ==
    LET call == new_call(q, r)
    IN /\ op' = "new"
       /\ arg' = q
       /\ requests' = call.sent
       /\ reply' = r
       /\ bodyRead' = call.read
       /\ result' = call.ret
       /\ json' = NoJson
       /\ lastErr' = Remember

thumbnail(item, r) ==
    LET call == thumbnail_call(item, r)
    IN /\ op' = "thumbnail"
       /\ arg' = item
       /\ requests' = call.sent
       /\ reply' = IF call.sent = <<>> THEN NoReply ELSE r
       /\ bodyRead' = call.read
       /\ result' = call.ret
       /\ json' = NoJson
       /\ lastErr' = Remember

Display(item) ==
    /\ op' = "fmt"
    /\ arg' = item
    /\ requests' = <<>>
    /\ reply' = NoReply
    /\ bodyRead' = FALSE
    /\ result' = Ok(fmt(item))
    /\ json' = NoJson
    /\ lastErr' = Remember

\* the caller serializes the items the search returned
Serialize ==
    /\ op = "new"
    /\ IsOk(result)
    /\ json = NoJson
    /\ json' = to_value(result[2])
    /\ UNCHANGED <<op, arg, requests, reply, bodyRead, result, lastErr>>

Next ==
    \/ \E q \in Queries, r \in SearchReplies : new(q, r)
    \/ \E item \in Items \cup Found, r \in ThumbnailReplies : thumbnail(item, r)
    \/ \E item \in Items \cup Found : Display(item)
    \/ Serialize

Spec == Init /\ [][Next]_vars

----------------------------------------------------------------------------
(* Vocabulary of the properties, stated on the JSON text and the call's    *)
(* record, not through the decoder.                                        *)

Answered == reply[1] = "response"
Answered2xx == Answered /\ Status(reply) \in 200..299 /\ Readable(reply)

Keys(o) == {o[2][n][1] : n \in 1..Len(o[2])}
UniqueKeys(o) == \A m, n \in 1..Len(o[2]) : o[2][m][1] = o[2][n][1] => m = n
\* the value of the first member named k; null when there is none
Lookup(o, k) ==
    IF k \in Keys(o)
    THEN o[2][CHOOSE n \in 1..Len(o[2]) :
                  o[2][n][1] = k /\ \A m \in 1..(n - 1) : o[2][m][1] # k][2]
    ELSE JNull

IsU32(v) == v[1] = "num" /\ v[2] \in 0..(Limb - 1) /\ v[3] \in 0..(Limb - 1)
WellTyped(k, v) ==
    v = JNull \/ (IF k = "duration" THEN IsU32(v) ELSE v[1] = "str")

\* an object of the schema's item shape: each of the five fields absent,
\* null, or a value of its type
ItemShape(e) ==
    /\ e[1] = "obj"
    /\ UniqueKeys(e)
    /\ \A k \in FieldSet : WellTyped(k, Lookup(e, k))

\* { "items": [ item, ... ] }
SchemaShape(b) ==
    /\ b[1] = "obj"
    /\ UniqueKeys(b)
    /\ "items" \in Keys(b)
    /\ Lookup(b, "items")[1] = "arr"
    /\ \A n \in 1..Len(Lookup(b, "items")[2]) : ItemShape(Lookup(b, "items")[2][n])

\* the elements of the body's items array (object form or positional form)
ItemsOf(b) == IF b[1] = "obj" THEN Lookup(b, "items")[2] ELSE b[2][1][2]

\* the Option a JSON field value stands for
OptionOf(v) ==
    IF v = JNull THEN None
    ELSE IF v[1] = "num" THEN Some(<<v[2], v[3]>>)
    ELSE Some(v[2])

ExpectedItem(e) ==
    WaveMusic(OptionOf(Lookup(e, "title")), OptionOf(Lookup(e, "uploaderName")),
              OptionOf(Lookup(e, "uploaderUrl")), OptionOf(Lookup(e, "duration")),
              OptionOf(Lookup(e, "id")))

\* the struct field that holds JSON key k
FieldOf(m, k) ==
    CASE k = "title" -> m.title
      [] k = "uploaderName" -> m.uploader_name
      [] k = "uploaderUrl" -> m.uploader_url
      [] k = "duration" -> m.duration
      [] k = "id" -> m.id

IsMissingIdError(e) ==
    e.ty = "StringError" /\ e.msg = <<"Music item does not have an ID">>
IsHttpStatusError(e, code) ==
    e.ty = "StringError" /\ Len(e.msg) = 2 /\ e.msg[2] = code
IsDecodeError(e) == e.ty = "serde_json::Error"
IsTransportError(e) == e.ty = "reqwest::Error"

----------------------------------------------------------------------------
(* C1: thumbnail on an item without an id fails with the missing-id error  *)
(* and issues no request, whatever the other fields are.                   *)
C1_AbsentIdNoRequest ==
    (op = "thumbnail" /\ arg.id = None) =>
        /\ IsErr(result)
        /\ IsMissingIdError(result[2])
        /\ Len(requests) = 0
        /\ reply = NoReply

C1_Witness ==
    /\ op = "thumbnail"
    /\ arg.id = None
    /\ arg.title = Some("Song")
    /\ IsErr(result)

(* C2: a non-2xx answer to new or thumbnail is returned as the status      *)
(* error carrying the status the server sent, and the body is not read,    *)
(* however well-formed it is.                                              *)
C2_Non2xxIsStatusError ==
    (op \in {"new", "thumbnail"} /\ Answered /\ Status(reply) \notin 200..299) =>
        /\ IsErr(result)
        /\ IsHttpStatusError(result[2], Status(reply))
        /\ ~bodyRead

C2_Witness ==
    /\ op = "new"
    /\ Answered
    /\ Status(reply) = 404
    /\ SchemaShape(Body(reply))
    /\ IsErr(result)
    /\ ~bodyRead

(* C3 as stated: the kind of an error alone tells its cause, so two errors *)
(* of the same kind have the same cause.                                   *)
C3_KindTellsCause ==
    (IsErr(result) /\ lastErr[2] = result[2].ty) => lastErr[1] = Cause

\* the cause an error value stands for, read from its type and message
CauseOfError(e) ==
    IF e.ty = "reqwest::Error" THEN "transport"
    ELSE IF e.ty = "serde_json::Error" THEN "body"
    ELSE IF e.msg[1] = "Music item does not have an ID" THEN "absent id"
    ELSE "status"

(* C3 amended: an error is one of three concrete types; transport failures *)
(* are reqwest errors, undecodable bodies serde_json errors, and both a    *)
(* non-2xx status and an absent id are bare messages, which only the       *)
(* message text tells apart.                                               *)
C3_ErrorTypeByCause ==
    IsErr(result) =>
        /\ result[2].ty =
              CASE Cause = "transport" -> "reqwest::Error"
                [] Cause = "body" -> "serde_json::Error"
                [] Cause = "status" -> "StringError"
                [] Cause = "absent id" -> "StringError"
        /\ CauseOfError(result[2]) = Cause

C3_Witness ==
    /\ IsErr(result)
    /\ result[2].ty = "StringError"
    /\ lastErr[2] = "StringError"
    /\ lastErr[1] = "absent id"
    /\ Cause = "status"

(* C4: a 2xx answer whose body has the schema's shape makes new return the *)
(* items of the array, as many and in the same order; none is no error.    *)
C4_ItemsInOrder ==
    (op = "new" /\ Answered2xx /\ SchemaShape(Body(reply))) =>
        /\ IsOk(result)
        /\ Len(result[2]) = Len(ItemsOf(Body(reply)))
        /\ \A n \in 1..Len(result[2]) :
              result[2][n] = ExpectedItem(ItemsOf(Body(reply))[n])

C4_Witness ==
    /\ op = "new"
    /\ Answered2xx
    /\ SchemaShape(Body(reply))
    /\ IsOk(result)
    /\ Len(result[2]) = 2
    /\ result[2][1].id = Some("abc")
    /\ result[2][2].id = Some("xyz")

(* C5 as stated: a 2xx answer whose body is not JSON, or is JSON without   *)
(* an `items` key, or whose `items` is not an array of item objects, fails *)
(* with the decode error.                                                  *)
C5_OffSchemaFails ==
    (op = "new" /\ Answered2xx
        /\ ~(/\ Body(reply)[1] = "obj"
             /\ "items" \in Keys(Body(reply))
             /\ Lookup(Body(reply), "items")[1] = "arr"
             /\ \A n \in 1..Len(Lookup(Body(reply), "items")[2]) :
                   Lookup(Body(reply), "items")[2][n][1] = "obj")) =>
        IsErr(result) /\ IsDecodeError(result[2])

\* a body no form of the decoder accepts: not JSON, a scalar, an object
\* without `items`, `items` no array, or an element neither object nor array
NeverDecodes(b) ==
    \/ b = NotJson
    \/ b[1] \notin {"obj", "arr"}
    \/ /\ b[1] = "obj"
       /\ \/ "items" \notin Keys(b)
          \/ Lookup(b, "items")[1] # "arr"
          \/ \E n \in 1..Len(Lookup(b, "items")[2]) :
                Lookup(b, "items")[2][n][1] \notin {"obj", "arr"}

(* C5 amended: a 2xx answer whose body is not JSON, is a JSON scalar, is   *)
(* an object without an `items` key, or whose `items` is not an array or   *)
(* holds an element that is neither an object nor an array, fails with the *)
(* decode error and returns no items.  (A top-level array and an item      *)
(* written as an array are decoded positionally and may succeed.)          *)
C5_UndecodableFails ==
    (op = "new" /\ Answered2xx /\ NeverDecodes(Body(reply))) =>
        IsErr(result) /\ IsDecodeError(result[2])

C5_Witness ==
    /\ op = "new"
    /\ Answered2xx
    /\ Body(reply) = JObj(<< <<"results", JArr(<<JObj(BaseMembers)>>)>> >>)
    /\ IsErr(result)
    /\ bodyRead

(* C6: new issues exactly one GET and thumbnail at most one, whatever the  *)
(* outcome, and the call ends in exactly one of Ok and Err.                *)
C6_OneRequestPerCall ==
    /\ op = "new" => requests = <<SearchUrl(arg)>>
    /\ op = "thumbnail" => Len(requests) <= 1
    /\ op \in {"new", "thumbnail"} => (IsOk(result) # IsErr(result))
    /\ (op \in {"new", "thumbnail"} /\ IsErr(result)) => Len(requests) <= 1

C6_Witness ==
    /\ op = "new"
    /\ IsErr(result)
    /\ Cause = "body"
    /\ Len(requests) = 1
    /\ lastErr[1] = "transport"

(* C7: in a decoded response an item object's field that is absent or null *)
(* is None, never a default value, and a field that has a value is Some of *)
(* that value; absent and null fields do not make the decode fail.         *)
C7_AbsentOrNullIsNone ==
    /\ (op = "new" /\ IsOk(result)) =>
          \A n \in 1..Len(result[2]) : \A k \in FieldSet :
              LET e == ItemsOf(Body(reply))[n]
              IN e[1] = "obj" =>
                    /\ (k \notin Keys(e) \/ Lookup(e, k) = JNull)
                          => FieldOf(result[2][n], k) = None
                    /\ (k \in Keys(e) /\ Lookup(e, k) # JNull)
                          => /\ FieldOf(result[2][n], k) # None
                             /\ FieldOf(result[2][n], k) = OptionOf(Lookup(e, k))
    /\ (op = "new" /\ Answered2xx /\ SchemaShape(Body(reply))) => IsOk(result)

C7_Witness ==
    /\ op = "new"
    /\ IsOk(result)
    /\ Body(reply) = ItemsBody(<<JObj(OtherMembers)>>)
    /\ result[2][1].uploader_name = None
    /\ result[2][1].duration = None
    /\ result[2][1].id = Some("abc")

\* a JSON field that carries a value
HasValue(o, k) == k \in Keys(o) /\ Lookup(o, k) # JNull

(* C8: decoding a response and serializing the items again keeps, for each *)
(* item and field, whether the field has a value, and the value itself; a  *)
(* field without a value (absent or null) is written as null.              *)
C8_RoundTrip ==
    json # NoJson =>
        /\ json[1] = "arr"
        /\ Len(json[2]) = Len(ItemsOf(Body(reply)))
        /\ \A n \in 1..Len(json[2]) : \A k \in FieldSet :
              LET e == ItemsOf(Body(reply))[n]
              IN e[1] = "obj" =>
                    /\ HasValue(json[2][n], k) <=> HasValue(e, k)
                    /\ HasValue(e, k) => Lookup(json[2][n], k) = Lookup(e, k)
        /\ de_vec(json) = result

C8_Witness ==
    /\ json # NoJson
    /\ Body(reply) = ItemsBody(<<JObj(OtherMembers), JObj(BaseMembers)>>)
    /\ ~HasValue(json[2][1], "duration")
    /\ HasValue(json[2][2], "duration")

(* C9: the rendering of an item is its title, " from ", its uploader name, *)
(* an absent one rendered as empty text; no other field matters.           *)
C9_Rendering ==
    op = "fmt" =>
        /\ result = Ok((IF arg.title = None THEN "" ELSE arg.title[2])
                       \o " from "
                       \o (IF arg.uploader_name = None THEN "" ELSE arg.uploader_name[2]))
        /\ (arg.title = Some("Song") /\ arg.uploader_name = Some("Artist"))
              => result[2] = "Song from Artist"
        /\ (arg.title = None /\ arg.uploader_name = None) => result[2] = " from "

C9_Witness ==
    /\ op = "fmt"
    /\ arg.title = Some("Song")
    /\ arg.uploader_name = Some("Artist")
    /\ arg.id = None
    /\ result = Ok("Song from Artist")

(* C10: thumbnail on an item with an id requests the thumbnail endpoint    *)
(* followed by exactly that id, whatever the other fields are, and on a    *)
(* 2xx answer returns the response with its body unread.                   *)
C10_ThumbnailTarget ==
    (op = "thumbnail" /\ arg.id # None) =>
        /\ requests = <<"https://api.wireway.ch/wave/thumbnail/" \o arg.id[2]>>
        /\ (Answered /\ Status(reply) \in 200..299)
              => result = Ok(reply) /\ ~bodyRead

C10_Witness ==
    /\ op = "thumbnail"
    /\ arg.id = Some("xyz")
    /\ arg.uploader_url = Some("/channel/UC1")
    /\ requests = <<"https://api.wireway.ch/wave/thumbnail/xyz">>
    /\ result = Ok(Response(200, Image("png-2"), TRUE))

====
